---- MODULE Spec2Model ----
(***************************************************************************)
(* View counting of cfarmer-blog: the KvClient interface with its two      *)
(* implementations (src/utils/kvClient.ts) and the counting endpoints      *)
(* (src/pages/api/view/site.ts and the per-page route).                    *)
(*                                                                         *)
(* Spec    drives the HTTP endpoints with concurrent requests; a request   *)
(*         yields at every await, so other requests run between its store  *)
(*         calls.                                                          *)
(* SpecKv  drives one InMemoryKvClient and one VercelKvClient side by side *)
(*         with the same get / set / increment calls.                      *)
(* SpecFail drives the endpoints under the durable variant with a hosted   *)
(*         store that becomes unreachable and reachable again.             *)
(***************************************************************************)
EXTENDS Integers, FiniteSets, TLC

VARIABLES env, up, siteKv, pageKv, remote, req, nDone, seqOK,
          store, hash, lastCall, run, nCalls

vars == <<env, up, siteKv, pageKv, remote, req, nDone, seqOK,
          store, hash, lastCall, run, nCalls>>

epVars == <<env, up, siteKv, pageKv, remote, req, nDone, seqOK>>
kvVars == <<store, hash, lastCall, run, nCalls>>

-----------------------------------------------------------------------------
(* Bounds *)

MaxReq == 3
MaxCalls == 3
MaxSetVal == 2
MaxBy == 2
MaxFailReq == 2

-----------------------------------------------------------------------------
(* JavaScript values that a field or a response can hold *)

Num(n) == [t |-> "number", n |-> n]
Null == [t |-> "null", n |-> 0]
Undefined == [t |-> "undefined", n |-> 0]
NaN == [t |-> "NaN", n |-> 0]

IsNum(v) == v.t = "number"

\* v == null / v ?? d in JavaScript: null and undefined are both nullish
IsNullish(v) == v.t \in {"null", "undefined"}

Coalesce_none(v, d) == v

Coalesce(v, d) == IF IsNullish(v) THEN d ELSE v

\* currVal + by, by a number: undefined + n and NaN + n are NaN, null + n is n
JsSub(a, by) ==
    CASE a.t = "number" -> Num(a.n - by)
      [] a.t = "null" -> Num(0 - by)
      [] OTHER -> NaN

JsAdd(a, by) ==
    CASE a.t = "number" -> Num(a.n + by)
      [] a.t = "null" -> Num(by)
      [] OTHER -> NaN

\* JSON.stringify({ views: v }) as the caller reads data.views back:
\* NaN is written as null, an undefined property is left out
JsonViews(v) == IF v.t = "NaN" THEN Null ELSE v

-----------------------------------------------------------------------------
(* Stores: a function from the resource keys present to a function from    *)
(* the fields present to their value.                                      *)

EmptyStore == [k \in {} |-> Null]

\* obj with obj[key] = val assigned (created or replaced)
Assign(obj, key, val) ==
    [k \in DOMAIN obj \cup {key} |-> IF k = key THEN val ELSE obj[k]]

\* the InMemoryKvClient constructor
InMemoryKvClient_new == Assign(EmptyStore, "site", Assign(EmptyStore, "views", Num(0)))

\* this.store[key][field], undefined for a property that is not there
Prop(obj, field) == IF field \in DOMAIN obj THEN obj[field] ELSE Undefined

InMemoryKvClient_get_rej(s, key, field) ==
    IF key \in DOMAIN s
    THEN [ok |-> TRUE, val |-> Prop(s[key], field), store |-> s]
    ELSE [ok |-> FALSE, val |-> Null, store |-> s]

InMemoryKvClient_get(s, key, field) ==
    IF key \in DOMAIN s
    THEN [ok |-> TRUE, val |-> Prop(s[key], field), store |-> s]
    ELSE [ok |-> TRUE, val |-> Null, store |-> s]

InMemoryKvClient_increment_lost(s, key, field, by) ==
    IF key \in DOMAIN s
    THEN LET newVal == JsAdd(Prop(s[key], field), by)
         IN  [ok |-> TRUE, val |-> newVal, store |-> s]
    ELSE [ok |-> FALSE, val |-> Num(0), store |-> s]

InMemoryKvClient_increment_old(s, key, field, by) ==
    IF key \in DOMAIN s
    THEN LET currVal == Prop(s[key], field)
             newVal == JsAdd(currVal, by)
         IN  [ok |-> TRUE, val |-> currVal,
              store |-> Assign(s, key, Assign(s[key], field, newVal))]
    ELSE [ok |-> FALSE, val |-> Num(0), store |-> s]

InMemoryKvClient_increment_upsert(s, key, field, by) ==
    LET old == IF key \in DOMAIN s THEN s[key] ELSE EmptyStore
        newVal == IF field \in DOMAIN old THEN JsAdd(old[field], by) ELSE Num(by)
    IN  [ok |-> TRUE, val |-> newVal,
         store |-> Assign(s, key, Assign(old, field, newVal))]

InMemoryKvClient_increment(s, key, field, by) ==
    IF key \in DOMAIN s
    THEN LET currVal == Prop(s[key], field)
             newVal == JsAdd(currVal, by)
         IN  [ok |-> TRUE, val |-> newVal,
              store |-> Assign(s, key, Assign(s[key], field, newVal))]
    ELSE [ok |-> FALSE, val |-> Num(0), store |-> s]

InMemoryKvClient_set_overwrite(s, key, field, value) ==
    LET old == IF key \in DOMAIN s THEN s[key] ELSE EmptyStore
    IN  [ok |-> TRUE, val |-> Num(0),
         store |-> Assign(s, key, Assign(old, field, value))]

InMemoryKvClient_set_replace(s, key, field, value) ==
    [ok |-> TRUE, val |-> Num(0),
     store |-> Assign(s, key, Assign(EmptyStore, field, value))]

\* { [field]: value, ...this.store[key] }: the spread comes last, so a field
\* already stored under the key keeps its value
InMemoryKvClient_set(s, key, field, value) ==
    LET old == IF key \in DOMAIN s THEN s[key] ELSE EmptyStore
        obj == [f \in DOMAIN old \cup {field} |->
                    IF f \in DOMAIN old THEN old[f] ELSE value]
    IN  [ok |-> TRUE, val |-> Num(0), store |-> Assign(s, key, obj)]

\* The hash commands of the hosted store that VercelKvClient passes through to
hget(h, key, field) ==
    IF key \in DOMAIN h /\ field \in DOMAIN h[key] THEN h[key][field] ELSE Null

VercelKvClient_get(h, key, field) ==
    [ok |-> TRUE, val |-> hget(h, key, field), store |-> h]

\* hincrby: one atomic command; a missing key or field counts from 0
VercelKvClient_increment(h, key, field, by) ==
    LET old == IF key \in DOMAIN h THEN h[key] ELSE EmptyStore
        curr == IF field \in DOMAIN old THEN old[field] ELSE Num(0)
    IN  IF IsNum(curr)
        THEN [ok |-> TRUE, val |-> Num(curr.n + by),
              store |-> Assign(h, key, Assign(old, field, Num(curr.n + by)))]
        ELSE [ok |-> FALSE, val |-> Null, store |-> h]

\* hset: overwrites the field, answers the number of fields it added
VercelKvClient_set(h, key, field, value) ==
    LET old == IF key \in DOMAIN h THEN h[key] ELSE EmptyStore
    IN  [ok |-> TRUE,
         val |-> IF field \in DOMAIN old THEN Num(0) ELSE Num(1),
         store |-> Assign(h, key, Assign(old, field, value))]

getKvClient_prod(e) == IF e = "prod" THEN "VercelKvClient" ELSE "InMemoryKvClient"

getKvClient(e) == IF e = "prd" THEN "VercelKvClient" ELSE "InMemoryKvClient"

-----------------------------------------------------------------------------
(* The counting endpoints.  The site module and the per-page module each   *)
(* run  const kv = getKvClient(ENVIRONMENT)  once when they are loaded:    *)
(* under InMemoryKvClient siteKv and pageKv are the store fields of those  *)
(* two clients, under VercelKvClient both clients reach the hosted store   *)
(* remote.                                                                 *)

\* import.meta.env.ENVIRONMENT when the variable is not set
NoEnv == "undefined"
Envs == {"prd", "dev", NoEnv}
Pages == {"p1", "p2"}
\* params.page_id of a request that carries none
NoParam == "undefined"
Resources == {"site"} \cup Pages
Reqs == 1..MaxReq

IdleReq ==
    [kind |-> "none", key |-> "", pc |-> "idle", pageCount |-> Undefined,
     status |-> 0, views |-> Undefined, ops |-> 0, seq |-> 0,
     storedAfter |-> Undefined]

NoCall ==
    [op |-> "none", key |-> "", field |-> "", arg |-> Null,
     hadKey |-> FALSE, hadField |-> FALSE,
     mem |-> [ok |-> TRUE, val |-> Null], dur |-> [ok |-> TRUE, val |-> Null]]

NoRun == [key |-> "", field |-> "", k |-> 0, memV |-> Null, durV |-> Null]

Durable == getKvClient(env) = "VercelKvClient"

StoreOf_fresh(mod) == IF Durable THEN remote ELSE InMemoryKvClient_new

\* the store that the kv constant of module mod ("site" or "page") works on
StoreOf(mod) == IF Durable THEN remote ELSE IF mod = "site" THEN siteKv ELSE pageKv

Commit(mod, s) ==
    IF Durable
    THEN remote' = s /\ UNCHANGED <<siteKv, pageKv>>
    ELSE IF mod = "site"
         THEN siteKv' = s /\ UNCHANGED <<pageKv, remote>>
         ELSE pageKv' = s /\ UNCHANGED <<siteKv, remote>>

\* a call of the hosted store's client while the backend cannot be reached:
\* the promise VercelKvClient returns rejects, the hosted store is as it was
Unavailable_null(h) == [ok |-> TRUE, val |-> Null, store |-> h]

Unavailable(h) == [ok |-> FALSE, val |-> Null, store |-> h]

kv_get_counts(mod, key, field) ==
    IF Durable THEN VercelKvClient_increment(remote, key, field, 1)
               ELSE InMemoryKvClient_increment(StoreOf(mod), key, field, 1)

kv_get(mod, key, field) ==
    IF Durable
    THEN IF up THEN VercelKvClient_get(remote, key, field) ELSE Unavailable(remote)
    ELSE InMemoryKvClient_get(StoreOf(mod), key, field)

kv_set(mod, key, field, value) ==
    IF Durable
    THEN IF up THEN VercelKvClient_set(remote, key, field, value)
               ELSE Unavailable(remote)
    ELSE InMemoryKvClient_set(StoreOf(mod), key, field, value)

kv_increment(mod, key, field, by) ==
    IF Durable
    THEN IF up THEN VercelKvClient_increment(remote, key, field, by)
               ELSE Unavailable(remote)
    ELSE InMemoryKvClient_increment(StoreOf(mod), key, field, by)

\* what a get of the field would return from store contents s
Stored(s, key, field) ==
    IF Durable THEN hget(s, key, field) ELSE InMemoryKvClient_get(s, key, field).val

\* pageId == undefined
ParamMissing_never(pageId) == FALSE

ParamMissing(pageId) == pageId = NoParam

InFlight(r) == req[r].pc \notin {"idle", "done"}

Writes(kind) == kind \in {"sitePOST", "pagePUT"}

\* a rejected promise that the handler does not catch fails the request
Failed(r) ==
    [req[r] EXCEPT !.pc = "done", !.status = 500, !.ops = @ + 1]

Init ==
    /\ env \in Envs
    /\ up = TRUE
    /\ siteKv = IF Durable THEN EmptyStore ELSE InMemoryKvClient_new
    /\ pageKv = IF Durable THEN EmptyStore ELSE InMemoryKvClient_new
    /\ remote \in IF Durable THEN {EmptyStore, InMemoryKvClient_new} ELSE {EmptyStore}
    /\ req = [r \in Reqs |-> IdleReq]
    /\ nDone = [k \in Resources |-> 0]
    /\ seqOK = [k \in Resources |-> TRUE]
    /\ store = InMemoryKvClient_new
    /\ hash = InMemoryKvClient_new
    /\ lastCall = NoCall
    /\ run = NoRun
    /\ nCalls = 0

\* A request arrives.  Slots are taken in order; seqOK[key] is history: it
\* turns false once a writing request on key starts while another is running.
Request(r, kind, key) ==
    /\ req[r].pc = "idle"
    /\ \A q \in Reqs : q < r => req[q].pc # "idle"
    /\ req' = [req EXCEPT ![r] = [IdleReq EXCEPT !.kind = kind, !.key = key,
                                                 !.pc = "called"]]
    /\ seqOK' = IF Writes(kind) /\ key \in Resources
                   /\ \E q \in Reqs : InFlight(q) /\ Writes(req[q].kind)
                                      /\ req[q].key = key
                THEN [seqOK EXCEPT ![key] = FALSE]
                ELSE seqOK
    /\ UNCHANGED <<env, up, siteKv, pageKv, remote, nDone, kvVars>>

\* site module, GET
SiteGET(r) ==
    /\ req[r].pc = "called" /\ req[r].kind = "siteGET"
    /\ LET res == kv_get("site", "site", "views")
       IN  /\ Commit("site", res.store)
           /\ req' = [req EXCEPT ![r] =
                  IF res.ok
                  THEN [@ EXCEPT !.pc = "done", !.status = 200, !.ops = @ + 1,
                                 !.views = JsonViews(res.val)]
                  ELSE Failed(r)]
    /\ UNCHANGED <<env, up, nDone, seqOK, kvVars>>

\* site module, POST
SitePOST(r) ==
    /\ req[r].pc = "called" /\ req[r].kind = "sitePOST"
    /\ LET res == kv_increment("site", "site", "views", 1)
       IN  /\ Commit("site", res.store)
           /\ req' = [req EXCEPT ![r] =
                  IF res.ok
                  THEN [@ EXCEPT !.pc = "done", !.status = 200, !.ops = @ + 1,
                                 !.views = JsonViews(res.val),
                                 !.seq = nDone["site"] + 1,
                                 !.storedAfter = Stored(res.store, "site", "views")]
                  ELSE Failed(r)]
           /\ nDone' = IF res.ok THEN [nDone EXCEPT !["site"] = @ + 1] ELSE nDone
    /\ UNCHANGED <<env, up, seqOK, kvVars>>

\* per-page module, GET
PageGET(r) ==
    /\ req[r].pc = "called" /\ req[r].kind = "pageGET"
    /\ IF ParamMissing(req[r].key)
       THEN /\ req' = [req EXCEPT ![r].pc = "done", ![r].status = 400]
            /\ UNCHANGED <<siteKv, pageKv, remote>>
       ELSE LET res == kv_get("page", req[r].key, "views")
            IN  /\ Commit("page", res.store)
                /\ req' = [req EXCEPT ![r] =
                       IF res.ok
                       THEN [@ EXCEPT !.pc = "done", !.status = 200, !.ops = @ + 1,
                                      !.views = JsonViews(Coalesce(res.val, Num(0)))]
                       ELSE Failed(r)]
    /\ UNCHANGED <<env, up, nDone, seqOK, kvVars>>

\* per-page module, PUT up to  await kv.get
PUT_get(r) ==
    /\ req[r].pc = "called" /\ req[r].kind = "pagePUT"
    /\ IF ParamMissing(req[r].key)
       THEN /\ req' = [req EXCEPT ![r].pc = "done", ![r].status = 400]
            /\ UNCHANGED <<siteKv, pageKv, remote>>
       ELSE LET res == kv_get("page", req[r].key, "views")
            IN  /\ Commit("page", res.store)
                /\ req' = [req EXCEPT ![r] =
                       IF res.ok
                       THEN [@ EXCEPT !.pc = "gotCount", !.ops = @ + 1,
                                      !.pageCount = res.val]
                       ELSE Failed(r)]
    /\ UNCHANGED <<env, up, nDone, seqOK, kvVars>>

\* per-page module, PUT from  if (pageCount == null)  to the response
PUT_write(r) ==
    /\ req[r].pc = "gotCount" /\ req[r].kind = "pagePUT"
    /\ LET key == req[r].key
           first == IsNullish(req[r].pageCount)
           res == IF first THEN kv_set("page", key, "views", Num(1))
                           ELSE kv_increment("page", key, "views", 1)
           pageCount == IF first THEN Num(1) ELSE res.val
       IN  /\ Commit("page", res.store)
           /\ req' = [req EXCEPT ![r] =
                  IF res.ok
                  THEN [@ EXCEPT !.pc = "done", !.status = 200, !.ops = @ + 1,
                                 !.pageCount = pageCount,
                                 !.views = JsonViews(pageCount),
                                 !.seq = nDone[key] + 1,
                                 !.storedAfter = Stored(res.store, key, "views")]
                  ELSE Failed(r)]
           /\ nDone' = IF res.ok THEN [nDone EXCEPT ![key] = @ + 1] ELSE nDone
    /\ UNCHANGED <<env, up, seqOK, kvVars>>

Next ==
    \/ \E r \in Reqs, kind \in {"siteGET", "sitePOST"} : Request(r, kind, "site")
    \/ \E r \in Reqs, kind \in {"pageGET", "pagePUT"}, key \in Pages \cup {NoParam} :
          Request(r, kind, key)
    \/ \E r \in Reqs : SiteGET(r)
    \/ \E r \in Reqs : SitePOST(r)
    \/ \E r \in Reqs : PageGET(r)
    \/ \E r \in Reqs : PUT_get(r)
    \/ \E r \in Reqs : PUT_write(r)

Spec == Init /\ [][Next]_vars

\* SpecFail: the durable variant with a backend that goes down and comes back
InitFail ==
    /\ env = "prd"
    /\ up = TRUE
    /\ siteKv = EmptyStore
    /\ pageKv = EmptyStore
    /\ remote = EmptyStore
    /\ req = [r \in Reqs |-> IdleReq]
    /\ nDone = [k \in Resources |-> 0]
    /\ seqOK = [k \in Resources |-> TRUE]
    /\ store = InMemoryKvClient_new
    /\ hash = InMemoryKvClient_new
    /\ lastCall = NoCall
    /\ run = NoRun
    /\ nCalls = 0

BackendFlips ==
    /\ up' = ~up
    /\ UNCHANGED <<env, siteKv, pageKv, remote, req, nDone, seqOK, kvVars>>

\* at most MaxFailReq requests are issued
FailReqs == 1..MaxFailReq

NextFail ==
    \/ \E r \in FailReqs, kind \in {"siteGET", "sitePOST"} : Request(r, kind, "site")
    \/ \E r \in FailReqs, kind \in {"pageGET", "pagePUT"}, key \in Pages \cup {NoParam} :
          Request(r, kind, key)
    \/ \E r \in Reqs : SiteGET(r)
    \/ \E r \in Reqs : SitePOST(r)
    \/ \E r \in Reqs : PageGET(r)
    \/ \E r \in Reqs : PUT_get(r)
    \/ \E r \in Reqs : PUT_write(r)
    \/ BackendFlips

SpecFail == InitFail /\ [][NextFail]_vars

-----------------------------------------------------------------------------
(* Claims about the endpoints (Spec) *)

PageViews(p) == Stored(StoreOf("page"), p, "views")

DonePut(r) == req[r].kind = "pagePUT" /\ req[r].pc = "done" /\ req[r].key \in Pages

DonePost(r) == req[r].kind = "sitePOST" /\ req[r].pc = "done"

\* C2: whenever no PUT on a page is running, the stored views of the page
\* is the number of PUT requests on it that have completed.
C2_EveryPutCounts ==
    \A p \in Pages :
        (nDone[p] > 0 /\ ~\E r \in Reqs : InFlight(r) /\ req[r].kind = "pagePUT"
                                          /\ req[r].key = p)
            => PageViews(p) = Num(nDone[p])

\* C3: while the PUT requests on a page have run one after another, the
\* i-th of them to complete has answered 200 with views = i.
C3_SequentialPuts ==
    \A r \in Reqs :
        (DonePut(r) /\ seqOK[req[r].key])
            => req[r].status = 200 /\ req[r].views = Num(req[r].seq)

C3_Witness ==
    \E r \in Reqs : DonePut(r) /\ seqOK[req[r].key] /\ req[r].seq = 2
                    /\ req[r].views = Num(2)

\* C6: the step of a per-page GET or PUT that carries no page_id ends the
\* request with status 400, has issued no store call and leaves the stores
\* as they were.
C6_MissingParam ==
    [][\A r \in Reqs :
          (req[r].pc = "called" /\ req[r].kind \in {"pageGET", "pagePUT"}
              /\ req[r].key = NoParam /\ req'[r] # req[r])
          => /\ req'[r].pc = "done"
             /\ req'[r].status = 400
             /\ req'[r].ops = 0
             /\ UNCHANGED <<siteKv, pageKv, remote>>]_vars

C6_Witness ==
    \E r, q \in Reqs :
        /\ req[r].kind = "pagePUT" /\ req[r].key = NoParam /\ req[r].status = 400
        /\ req[q].kind = "pageGET" /\ req[q].key = NoParam /\ req[q].status = 400

\* C7: while the site POST requests have run one after another, each has
\* answered 200 with the site views stored right after it, and a POST that
\* completed next after another returned one more than that one.
C7_SequentialPosts ==
    \A r \in Reqs :
        (DonePost(r) /\ seqOK["site"])
            => /\ req[r].status = 200
               /\ IsNum(req[r].views)
               /\ req[r].views = req[r].storedAfter
               /\ \A q \in Reqs :
                     (DonePost(q) /\ req[q].seq + 1 = req[r].seq)
                         => req[r].views.n = req[q].views.n + 1

C7_Witness ==
    \E r, q \in Reqs :
        DonePost(r) /\ DonePost(q) /\ seqOK["site"] /\ req[q].seq + 1 = req[r].seq

\* C10: under the durable variant no step lowers the stored views of a page.
C10_DurableNeverDecreases ==
    [][Durable =>
          \A p \in Pages :
              (IsNum(hget(remote, p, "views")) /\ IsNum(hget(remote', p, "views")))
                  => hget(remote', p, "views").n >= hget(remote, p, "views").n]_vars

\* the value held under key/field in store contents s, null when there is none
Held(s, key, field) ==
    IF key \in DOMAIN s /\ field \in DOMAIN s[key] THEN s[key][field] ELSE Null

\* C11: the step of a site GET answers 200 with the site views held in the
\* store at that moment and changes no store; the value a site POST returns
\* is one more than the number of POSTs completed before it, however many
\* GETs ran in between.
C11_SiteGetReadsOnly ==
    [][\A r \in Reqs :
          /\ (req[r].kind = "siteGET" /\ req[r].pc = "called" /\ req'[r] # req[r])
                => /\ req'[r].pc = "done"
                   /\ req'[r].status = 200
                   /\ req'[r].views = Held(StoreOf("site"), "site", "views")
                   /\ UNCHANGED <<siteKv, pageKv, remote>>
          /\ (req[r].kind = "sitePOST" /\ req[r].pc = "called" /\ req'[r] # req[r])
                => req'[r].views = Num(nDone["site"] + 1)]_vars

C11_Witness ==
    \E g, r \in Reqs :
        /\ req[g].kind = "siteGET" /\ req[g].pc = "done" /\ req[g].views = Num(1)
        /\ DonePost(r) /\ req[r].seq = 2 /\ req[r].views = Num(2)

\* C12: the step of a per-page GET that carries a page_id answers 200 with
\* views = 0 when the page has no record and with the stored value otherwise,
\* and changes no store; the first PUT to complete on a page returns views = 1
\* whatever GETs ran before it.
C12_PageGetDefaultsToZero ==
    [][\A r \in Reqs :
          /\ (req[r].kind = "pageGET" /\ req[r].pc = "called" /\ req[r].key \in Pages
                  /\ req'[r] # req[r])
                => /\ req'[r].pc = "done"
                   /\ req'[r].status = 200
                   /\ req'[r].views =
                         IF req[r].key \in DOMAIN StoreOf("page")
                         THEN Held(StoreOf("page"), req[r].key, "views")
                         ELSE Num(0)
                   /\ UNCHANGED <<siteKv, pageKv, remote>>
          /\ (req[r].kind = "pagePUT" /\ req[r].pc = "gotCount" /\ req'[r] # req[r]
                  /\ nDone[req[r].key] = 0)
                => req'[r].views = Num(1)]_vars

C12_Witness ==
    \E g, r \in Reqs :
        /\ req[g].kind = "pageGET" /\ req[g].pc = "done" /\ req[g].views = Num(0)
        /\ DonePut(r) /\ req[r].key = req[g].key /\ req[r].seq = 1
        /\ req[r].views = Num(1)

\* C13: exactly under the environment value "prd" the modules hold durable
\* clients (no in-memory store exists and writes reach the hosted store);
\* under every other value, unset included, both modules hold an in-memory
\* store and the hosted store is never touched.
C13_EnvSelectsStore ==
    IF env = "prd"
    THEN siteKv = EmptyStore /\ pageKv = EmptyStore
    ELSE /\ remote = EmptyStore
         /\ "site" \in DOMAIN siteKv
         /\ "site" \in DOMAIN pageKv

C13_Witness ==
    /\ env = NoEnv
    /\ \E p \in Pages : p \in DOMAIN pageKv
    /\ Held(siteKv, "site", "views") = Num(1)

\* a request whose next step calls the store
CallsStore(r) ==
    /\ req[r].pc \in {"called", "gotCount"}
    /\ ~(req[r].kind \in {"pageGET", "pagePUT"} /\ ParamMissing(req[r].key))

\* C15: under the durable variant, a step of a request that calls the store
\* while the backend is down ends the request as failed (status 500, never
\* 200 with some views value) and leaves the hosted store as it was; this
\* includes the per-page GET.
C15_BackendFailurePropagates ==
    [][\A r \in Reqs :
          (Durable /\ ~up /\ CallsStore(r) /\ req'[r] # req[r])
              => /\ req'[r].pc = "done"
                 /\ req'[r].status = 500
                 /\ req'[r].views = Undefined
                 /\ remote' = remote]_vars

C15_Witness ==
    \E r \in Reqs :
        /\ req[r].kind = "pageGET" /\ req[r].key \in DOMAIN remote
        /\ req[r].status = 500

\* C16: under the in-memory variant the views a site GET answers with is the
\* number of site POSTs completed since the modules were loaded.
C16_GetSeesCompletedPosts ==
    [][\A r \in Reqs :
          (~Durable /\ req[r].kind = "siteGET" /\ req[r].pc = "called"
              /\ req'[r] # req[r])
              => req'[r].views = Num(nDone["site"])]_vars

C16_Witness ==
    /\ ~Durable
    /\ \E g \in Reqs : req[g].kind = "siteGET" /\ req[g].pc = "done"
                       /\ req[g].views = Num(2)

\* C17: in every store, site views is a number >= 0 and every page that has
\* a record has a number >= 1 in views.
C17_ViewsNonNegative ==
    \A s \in {siteKv, pageKv, remote} :
        \A k \in DOMAIN s :
            /\ "views" \in DOMAIN s[k]
            /\ IsNum(s[k]["views"])
            /\ s[k]["views"].n >= (IF k = "site" THEN 0 ELSE 1)

C17_Witness ==
    /\ \E p \in Pages : IsNum(PageViews(p)) /\ PageViews(p).n >= 2
    /\ Held(StoreOf("site"), "site", "views") = Num(1)

\* C18: under the in-memory variant every completed request has status 200,
\* or 400 when it is a per-page request without page_id: no request has run
\* into a rejected store call.
C18_NoRejectInMemory ==
    ~Durable =>
        \A r \in Reqs :
            req[r].pc = "done" =>
                req[r].status =
                    IF req[r].kind \in {"pageGET", "pagePUT"} /\ req[r].key = NoParam
                    THEN 400 ELSE 200

C18_Witness ==
    /\ ~Durable
    /\ \E r \in Reqs : DonePut(r) /\ req[r].status = 200 /\ req[r].views = Num(2)
    /\ \E r \in Reqs : DonePost(r) /\ req[r].status = 200

\* C19: under the in-memory variant no step lowers the stored views of a page.
C19_InMemoryNeverDecreases ==
    [][~Durable =>
          \A p \in Pages :
              p \in DOMAIN pageKv
                  => /\ p \in DOMAIN pageKv'
                     /\ Held(pageKv', p, "views").n >= Held(pageKv, p, "views").n]_vars

\* a PUT that found no record has called set after two other PUTs had
\* brought the page to 2, and the page still holds 2
C19_Witness ==
    /\ ~Durable
    /\ \E r \in Reqs : /\ DonePut(r) /\ req[r].views = Num(1) /\ req[r].seq = 3
                       /\ PageViews(req[r].key) = Num(2)

\* C20: the views values returned by the site POSTs completed so far, run
\* concurrently or not, are pairwise distinct and are exactly 1, ..., n from
\* the initial site views 0.
C20_PostsReturnDistinct ==
    LET done == {r \in Reqs : DonePost(r)}
    IN  /\ \A r \in done : req[r].status = 200 /\ IsNum(req[r].views)
        /\ \A r, q \in done : r # q => req[r].views # req[q].views
        /\ {req[r].views.n : r \in done} = 1..Cardinality(done)

C20_Witness ==
    /\ ~seqOK["site"]
    /\ Cardinality({r \in Reqs : DonePost(r)}) = 3

\* C21: the store that the site endpoints work on and the store that the
\* per-page endpoints work on are one store: they hold the same contents in
\* every state.
C21_SingleStore == StoreOf("site") = StoreOf("page")

-----------------------------------------------------------------------------
(* SpecKv: the two KvClient implementations called side by side.  store is *)
(* the store field of an InMemoryKvClient, hash the contents of the hosted *)
(* store behind a VercelKvClient.  Every method body runs without an await *)
(* inside it, so a call is one step and concurrent calls are a sequence.   *)

KvKeys == {"site", "p1"}
KvFields == {"views", "likes"}

Called(op, key, field, arg, m, d) ==
    [op |-> op, key |-> key, field |-> field, arg |-> arg,
     hadKey |-> key \in DOMAIN store,
     hadField |-> key \in DOMAIN store /\ field \in DOMAIN store[key],
     mem |-> [ok |-> m.ok, val |-> m.val], dur |-> [ok |-> d.ok, val |-> d.val]]

\* History of the current series of increment(key, field, 1) calls: the
\* values the field held in each store when the series began, and its length
RunAfterIncrement(key, field, by) ==
    IF by = 1
    THEN IF run.k > 0 /\ run.key = key /\ run.field = field
         THEN [run EXCEPT !.k = @ + 1]
         ELSE [key |-> key, field |-> field, k |-> 1,
               memV |-> InMemoryKvClient_get(store, key, field).val,
               durV |-> hget(hash, key, field)]
    ELSE IF run.key = key /\ run.field = field THEN NoRun ELSE run

RunAfterSet(key, field) ==
    IF run.key = key /\ run.field = field THEN NoRun ELSE run

InitKv ==
    /\ env = "dev"
    /\ up = TRUE
    /\ siteKv = InMemoryKvClient_new
    /\ pageKv = InMemoryKvClient_new
    /\ remote = EmptyStore
    /\ req = [r \in Reqs |-> IdleReq]
    /\ nDone = [k \in Resources |-> 0]
    /\ seqOK = [k \in Resources |-> TRUE]
    /\ store = InMemoryKvClient_new
    /\ hash = InMemoryKvClient_new
    /\ lastCall = NoCall
    /\ run = NoRun
    /\ nCalls = 0

KvGet(key, field) ==
    /\ nCalls < MaxCalls
    /\ LET m == InMemoryKvClient_get(store, key, field)
           d == VercelKvClient_get(hash, key, field)
       IN  /\ store' = m.store
           /\ hash' = d.store
           /\ lastCall' = Called("get", key, field, Null, m, d)
    /\ nCalls' = nCalls + 1
    /\ UNCHANGED <<run, epVars>>

KvSet(key, field, n) ==
    /\ nCalls < MaxCalls
    /\ LET m == InMemoryKvClient_set(store, key, field, Num(n))
           d == VercelKvClient_set(hash, key, field, Num(n))
       IN  /\ store' = m.store
           /\ hash' = d.store
           /\ lastCall' = Called("set", key, field, Num(n), m, d)
    /\ run' = RunAfterSet(key, field)
    /\ nCalls' = nCalls + 1
    /\ UNCHANGED epVars

KvIncrement(key, field, by) ==
    /\ nCalls < MaxCalls
    /\ LET m == InMemoryKvClient_increment(store, key, field, by)
           d == VercelKvClient_increment(hash, key, field, by)
       IN  /\ store' = m.store
           /\ hash' = d.store
           /\ lastCall' = Called("increment", key, field, Num(by), m, d)
    /\ run' = RunAfterIncrement(key, field, by)
    /\ nCalls' = nCalls + 1
    /\ UNCHANGED epVars

NextKv ==
    \/ \E key \in KvKeys, field \in KvFields : KvGet(key, field)
    \/ \E key \in KvKeys, field \in KvFields, n \in 0..MaxSetVal : KvSet(key, field, n)
    \/ \E key \in KvKeys, field \in KvFields, by \in 1..MaxBy : KvIncrement(key, field, by)

SpecKv == InitKv /\ [][NextKv]_vars

-----------------------------------------------------------------------------
(* Claims about the KvClient methods (SpecKv) *)

\* C1: once a field that exists holds a number v, after k completed
\* increment(key, field, 1) calls, whatever gets and writes to other fields
\* are interleaved with them, the field holds v + k in each store.
C1_NoLostIncrement ==
    run.k > 0 =>
        /\ IsNum(run.memV) =>
              InMemoryKvClient_get(store, run.key, run.field).val
                  = Num(run.memV.n + run.k)
        /\ IsNum(run.durV) =>
              hget(hash, run.key, run.field) = Num(run.durV.n + run.k)

C1_Witness == run.k >= 2 /\ IsNum(run.memV) /\ IsNum(run.durV) /\ lastCall.op = "get"

\* C4: right after set(key, field, n), get(key, field) returns n in each
\* store, whether or not the key or the field was there before.
C4_SetThenGet ==
    lastCall.op = "set" =>
        /\ InMemoryKvClient_get(store, lastCall.key, lastCall.field).val = lastCall.arg
        /\ VercelKvClient_get(hash, lastCall.key, lastCall.field).val = lastCall.arg

\* C5: the in-memory get always resolves: null on an unknown resource key,
\* null or undefined on an unknown field of a known key, and 0 for
\* get("site", "views") on the store as constructed.
C5_GetNeverRejects ==
    lastCall.op = "get" =>
        /\ lastCall.mem.ok
        /\ ~lastCall.hadKey => lastCall.mem.val = Null
        /\ (lastCall.hadKey /\ ~lastCall.hadField) => IsNullish(lastCall.mem.val)
        /\ (store = InMemoryKvClient_new /\ lastCall.key = "site"
                /\ lastCall.field = "views") => lastCall.mem.val = Num(0)

C5_Witness == lastCall.op = "get" /\ ~lastCall.hadKey /\ lastCall.mem.val = Null

\* C14: the in-memory store holds site.views = 0 when constructed; every call
\* leaves "site" in it with a number in views, removes no resource key, and
\* a resource key appears only in a set call on that key.
C14_InMemoryKeys ==
    [][/\ nCalls = 0 => Held(store, "site", "views") = Num(0)
       /\ IsNum(Held(store', "site", "views"))
       /\ DOMAIN store \subseteq DOMAIN store'
       /\ \A k \in DOMAIN store' \ DOMAIN store :
             lastCall'.op = "set" /\ lastCall'.key = k]_vars

C14_Witness ==
    /\ "p1" \in DOMAIN store
    /\ lastCall.op = "increment" /\ lastCall.key = "p1"
    /\ IsNum(Held(store, "site", "views")) /\ Held(store, "site", "views").n > 0

\* C22: a set or increment call on the in-memory store changes at most the
\* called field of the called key: every other key and every other field of
\* that key is there as before with the value it had, and nothing else is
\* added; an increment that rejects because the key is unknown leaves the
\* whole store as it was.
C22_InMemoryFrame ==
    [][(nCalls' # nCalls /\ lastCall'.op \in {"set", "increment"}) =>
          LET key == lastCall'.key
              field == lastCall'.field
          IN  /\ DOMAIN store' \subseteq DOMAIN store \cup {key}
              /\ \A k \in DOMAIN store \ {key} :
                    k \in DOMAIN store' /\ store'[k] = store[k]
              /\ key \in DOMAIN store =>
                    /\ key \in DOMAIN store'
                    /\ DOMAIN store'[key] \subseteq DOMAIN store[key] \cup {field}
                    /\ \A f \in DOMAIN store[key] \ {field} :
                          f \in DOMAIN store'[key] /\ store'[key][f] = store[key][f]
              /\ key \notin DOMAIN store =>
                    (key \in DOMAIN store' => DOMAIN store'[key] = {field})
              /\ (lastCall'.op = "increment" /\ key \notin DOMAIN store) =>
                    (~lastCall'.mem.ok /\ store' = store)]_vars

\* a set has added a second field under a key that had one, with another
\* resource key in the store
C22_Witness ==
    /\ lastCall.op = "set" /\ lastCall.hadKey /\ ~lastCall.hadField
    /\ DOMAIN store[lastCall.key] = KvFields
    /\ Cardinality(DOMAIN store) = 2

\* C8: after every call the two stores hold the same keys, fields and values
\* and have answered alike (null and undefined both count as absent; the
\* acknowledgement of set is not compared).
Absent(v) == IF IsNullish(v) THEN Null ELSE v

C8_KvEquivalent ==
    /\ store = hash
    /\ lastCall.op \in {"get", "increment"} =>
          /\ lastCall.mem.ok = lastCall.dur.ok
          /\ lastCall.mem.ok => Absent(lastCall.mem.val) = Absent(lastCall.dur.val)
    /\ lastCall.op = "set" => lastCall.mem.ok = lastCall.dur.ok

\* C9: increment(key, field, by) on a resource key that is not in the
\* in-memory store resolves with by and leaves the key created with field = by.
C9_IncrementCreates ==
    (lastCall.op = "increment" /\ ~lastCall.hadKey) =>
        /\ lastCall.mem.ok
        /\ lastCall.mem.val = lastCall.arg
        /\ lastCall.key \in DOMAIN store
        /\ Prop(store[lastCall.key], lastCall.field) = lastCall.arg

====
